---- MODULE Spec2Model ----
(***************************************************************************)
(* Model of DockerLogParser (src/log_parser.py): parse_logs with its two   *)
(* step parsers, the relative-time synthesizer, detect_parallelism and     *)
(* identify_bottlenecks.                                                   *)
(*                                                                         *)
(* Abstractions.  A log line is a record giving the shape of its text (the *)
(* regular expressions of lines 30-75 it matches) and the values those     *)
(* expressions capture.  Times are integers (seconds); durations are       *)
(* integers (the float seconds of _parse_duration).  An Optional value is  *)
(* the empty tuple (None) or a one-element tuple.  datetime.now() is a     *)
(* nondeterministic, non-decreasing clock and returns a naive datetime; a  *)
(* datetime parsed from a token with a zone suffix is aware, a pair of its *)
(* time and the zone.  BuildStep.parent_steps is never written by the      *)
(* parser and is left out.                                                 *)
(***************************************************************************)
EXTENDS Integers, Sequences, FiniteSets, TLC

VARIABLES
    pc,                     \* "idle", "buildkit", "legacy", "done", "raised"
    is_buildkit,            \* self.is_buildkit
    build_start_time,       \* self.build_start_time (Optional)
    relative_time_counter,  \* self.relative_time_counter
    step_start_times,       \* local dict of _parse_buildkit_logs
    step_info,              \* local dict of _parse_buildkit_logs, in insertion order
    steps,                  \* local list of _parse_legacy_logs
    current_step,           \* local of _parse_legacy_logs (Optional)
    step_counter,           \* local of _parse_legacy_logs
    cur,                    \* lines[i] of the legacy loop
    lineNo,                 \* number of lines consumed so far (i)
    clock,                  \* last value returned by datetime.now()
    result,                 \* the list returned by parse_logs
    indicator,              \* a line among the first DetectWindow lines made _detect_format say BuildKit
    sawTimestamp,           \* some line of this document carried a well-formed timestamp
    headers,                \* legacy: one entry per header line read: its token, label, the shape of the raw
                            \* line before it, whether a using-cache marker followed it
    prevRaw,                \* legacy: shape of the raw line before cur
    created,                \* step ids in the order their records were first created in this run
    sawOpener,              \* some line of this document has a shape that creates a record
    bare_cached,            \* the n whose existing record a bare '#n CACHED' line has marked in this run
    a_pc,                   \* analysis: "input", "parallelism", "bottlenecks", "raised"
    a_steps,                \* analysis: the list of steps handed to the analysis
    a_pct,                  \* analysis: threshold_percentile
    a_groups,               \* analysis: value returned by detect_parallelism
    a_bottlenecks,          \* analysis: outcome of identify_bottlenecks
    d_pc,                   \* _detect_format: "scan" while the document is read, then "done"
    d_i,                    \* _detect_format: number of lines of the document read so far
    d_found,                \* _detect_format: the loop over lines[:20] has hit an indicating line
    d_nonempty,             \* number of non-empty lines among the lines read
    d_expected,             \* an indicating line is among the first 20 non-empty lines read
    d_last_blank,           \* the last line read is blank
    r_phase,                \* which run is under way: "first" on a new instance, "used" the next
                            \* document on the same instance, "fresh" that document on a new instance
    doc,                    \* the lines of the document of the "used" run
    used_result,            \* the list the "used" run returned
    inert_seen,             \* the inert lines read in this run: the shape of each and whether its id
                            \* had a record
    v_pc,                   \* process_logs: "idle", then "empty", "shown" or "raised"
    v_error,                \* the exception process_logs ended with, "" without one
    y_positions             \* outcome of _calculate_y_positions

parserVars == <<pc, is_buildkit, build_start_time, relative_time_counter,
                step_start_times, step_info, steps, current_step, step_counter,
                cur, lineNo, clock, result, indicator, sawTimestamp,
                headers, prevRaw, created, sawOpener, bare_cached, inert_seen>>
analysisVars == <<a_pc, a_steps, a_pct, a_groups, a_bottlenecks>>
detectVars == <<d_pc, d_i, d_found, d_nonempty, d_expected, d_last_blank>>
reuseVars == <<r_phase, doc, used_result>>
displayVars == <<v_pc, v_error, y_positions>>
vars == <<parserVars, analysisVars, detectVars, reuseVars, displayVars>>

----------------------------------------------------------------------------
(* Bounds *)
MaxLines == 3       \* lines of a BuildKit document
MaxLegacyLines == 4 \* lines of a legacy document
MaxHeaders == 2     \* 'Step k/m' header lines of a legacy document
MaxSteps == 3       \* length of a step list handed to the analyses
MaxDocLines == 22   \* lines of a document handed to _detect_format

(* Values the inputs are drawn from *)
Timestamps == {1, 2}        \* absolute timestamps a line can carry
NowValues == {1, 2}         \* values datetime.now() can return
StepNumbers == {1, 2}       \* the n of a '#n ...' line
DurationTokens == {0, 1}    \* the '<d>s' token of DONE and extracting lines
StepTimes == {0, 1, 2}      \* start and end times of steps handed to the analyses
StepDurations == {0, 1, 2}  \* durations of steps handed to the analyses
Percentiles == {0, 34, 50, 75, 99, 100}

(* Program constants *)
DetectWindow == 20          \* lines[:20] in _detect_format
SyntheticDuration == 1      \* step.duration = 1.0 in _calculate_relative_times

----------------------------------------------------------------------------
(* Optional values *)
None == <<>>
Some(x) == <<x>>
Val(o) == o[1]

\* An aware datetime: the time and its zone
WithZone(t) == <<t, "utc">>
Aware(o) == Len(o) = 2
\* o + timedelta(seconds=d): the zone stays
Shift(o, d) == [o EXCEPT ![1] = @ + d]

\* The same without the last operand
Or3NoNow(a, b, c) == IF a # None THEN a ELSE b

\* Python's "a or b or c" on Optional datetimes (a datetime is always truthy)
Or3(a, b, c) == IF a # None THEN a ELSE IF b # None THEN b ELSE c

----------------------------------------------------------------------------
(* Log lines *)

Line(kind, tok, t, indent, id, dur, short, ind, label, desc) ==
    [kind |-> kind, tok |-> tok, t |-> t, indent |-> indent, id |-> id,
     dur |-> dur, short |-> short, ind |-> ind, label |-> label, desc |-> desc]

\* The leading token of a line: absent, of timestamp shape but not a date
\* (month 13), or a well-formed timestamp t.  A token "tz" is a well-formed
\* timestamp with a zone suffix (Z or +hh:mm).
TsToks == {<<"none", 1>>, <<"bad", 1>>} \cup {<<"ok", t>> : t \in Timestamps}

EOF == Line("EOF", "none", 1, FALSE, 1, None, FALSE, FALSE, "", "")
Blank == Line("blank", "none", 1, FALSE, 1, None, FALSE, FALSE, "", "")

OkToks == {k \in TsToks : k[1] # "bad"}

\* The 'k/m' label and the text of a 'Step k/m : text' header
HeaderTexts == {<<"1/2", "RUN make">>, <<"2/2", "COPY . .">>}

\* Lines of a document that _detect_format classifies legacy: no line starts
\* with '#' and contains DONE, CACHED or '['.  Leading whitespace is drawn
\* where the parser reads a raw line for its timestamp (line 300): on header
\* lines that carry one.  The second header text is drawn on headers without
\* a token, malformed tokens on headers.
LegacyLines ==
    {l \in {Line("header", k[1], k[2], ind, 1, None, FALSE, FALSE, h[1], h[2]) :
                k \in TsToks, ind \in BOOLEAN, h \in HeaderTexts} :
        /\ l.indent => l.tok = "ok"
        /\ l.label = "2/2" => l.tok = "none"}
    \cup {Line("other", k[1], k[2], FALSE, 1, None, FALSE, FALSE, "", "") : k \in OkToks}
    \cup {Line("using_cache", "none", 1, FALSE, 1, None, FALSE, FALSE, "", ""), Blank}

\* Shapes of '#<n> ...' lines whose text always contains DONE, CACHED or '['
BkMarkers == {"cached_ext", "cached", "start", "done", "simple"}
\* Shapes with free text.  Whether the text contains DONE, CACHED or '[' is
\* the field ind; both cases are drawn for the shape that can create a
\* record on its own (hashnum: '#11 exporting to image').
BkFree == {"progress", "loading", "transferring", "hashnum", "hashbad", "other"}
BkInertShapes == {"progress", "loading", "transferring", "continuation"}
\* Shapes whose branch assigns a new BuildStep to step_info: extended CACHED
\* (line 128), start (146), generic bracketed (186), '#<n> text' fallback (233)
BkOpeners == {"cached_ext", "start", "simple", "hashnum"}

\* Lines of a BuildKit document.  Malformed tokens are drawn on start lines
\* and on lines of no shape, timestamps on every shape that can change a
\* record or create one.
BkLines ==
    {Line("start", "bad", 1, FALSE, n, None, FALSE, TRUE, "", "") : n \in StepNumbers}
    \cup {Line(kd, k[1], k[2], FALSE, n, None, FALSE, TRUE, "", "") :
        kd \in BkMarkers \ {"done"}, k \in OkToks, n \in StepNumbers}
    \cup {Line("done", k[1], k[2], FALSE, n, Some(d), FALSE, TRUE, "", "") :
        k \in OkToks, n \in StepNumbers, d \in DurationTokens}
    \cup {Line("hashnum", k[1], k[2], FALSE, n, None, FALSE, ind, "", "") :
        k \in OkToks, n \in StepNumbers, ind \in BOOLEAN}
    \cup {Line("extracting", "none", 1, FALSE, n, dd, sh, FALSE, "", "") :
        n \in StepNumbers, dd \in {None} \cup {Some(d) : d \in DurationTokens},
        sh \in BOOLEAN}
    \cup {Line(kd, "none", 1, FALSE, n, None, FALSE, FALSE, "", "") :
        kd \in BkInertShapes, n \in StepNumbers}
    \cup {Line("other", k[1], k[2], FALSE, 1, None, FALSE, FALSE, "", "") : k \in TsToks}
    \cup {Line("hashbad", "none", 1, FALSE, 1, None, FALSE, FALSE, "", ""), Blank}

----------------------------------------------------------------------------
(* BuildStep and the insertion-ordered dicts of the BuildKit parser *)

BuildStep(id, desc, st, et, dur, type, layer, cached) ==
    [step_id |-> id, description |-> desc, start_time |-> st, end_time |-> et,
     duration |-> dur, step_type |-> type, layer_info |-> layer, is_cached |-> cached]

BkId(n) == <<"#", n>>           \* f"#{match.group(1)}"
LegacyId(k) == <<"Step ", k>>   \* f"Step {step_counter}"
StepNum(id) == id[2]            \* int(s.step_id.lstrip('#Step '))

DictHas(d, id) == \E i \in DOMAIN d : d[i].step_id = id
DictIdx(d, id) == CHOOSE i \in DOMAIN d : d[i].step_id = id
DictGet(d, id) == d[DictIdx(d, id)]
\* A list that takes every assignment as a new entry
DictSetAppend(d, id, rec) == Append(d, rec)

\* d[id] = rec: a new key goes last, an existing key keeps its position
DictSet(d, id, rec) ==
    IF DictHas(d, id) THEN [d EXCEPT ![DictIdx(d, id)] = rec] ELSE Append(d, rec)

----------------------------------------------------------------------------
(* Timestamps *)

\* line.strip()
Strip(l) == [l EXCEPT !.indent = FALSE]

\* TIMESTAMP_PATTERN is anchored at the start of the text it is given: it
\* sees the leading token only when no whitespace precedes it.
TimestampShape(l) == l.tok # "none" /\ ~l.indent

\* _extract_timestamp: the parsed token, None when the shape does not match
\* or date_parser.parse raises
ExtractTimestamp(l) ==
    IF TimestampShape(l) /\ l.tok = "ok" THEN Some(l.t)
    ELSE IF TimestampShape(l) /\ l.tok = "tz" THEN WithZone(l.t)
    ELSE None

\* TIMESTAMP_PATTERN.sub('', line): removes the matched span, parsed or not
TimestampSub(l) == IF TimestampShape(l) THEN [l EXCEPT !.tok = "none"] ELSE l

\* What is left at the start of the text decides every .match() below: a
\* text that still starts with a token or with whitespace matches nothing.
AtStart(l) == l.tok = "none" /\ ~l.indent

----------------------------------------------------------------------------
(* The regular expressions of lines 30-70, as predicates on a line *)

CachedPattern(l) == AtStart(l) /\ l.kind \in {"cached_ext", "cached"}
CachedGroup2(l) == l.kind = "cached_ext"
StartPattern(l) == AtStart(l) /\ l.kind = "start"
DonePattern(l) == AtStart(l) /\ l.kind = "done"
ProgressPattern(l) == AtStart(l) /\ l.kind = "progress"
\* '#n [label] text' also matches a start line, whose label is 'stage k/m'
SimplePattern(l) == AtStart(l) /\ l.kind \in {"simple", "start"}
ExtractingPattern(l) == AtStart(l) /\ l.kind = "extracting"
\* The pattern has no end anchor and its text group is lazy: the group takes
\* one character, and the duration is captured only when it follows at once.
ExtractingGroup3(l) == IF l.short THEN l.dur ELSE None
\* No loading branch in the chain
LoadingPatternNever(l) == FALSE

LoadingPattern(l) == AtStart(l) /\ l.kind = "loading"
TransferringPattern(l) == AtStart(l) /\ l.kind = "transferring"
ContinuationPattern(l) == AtStart(l) /\ l.kind = "continuation"
\* line.strip().startswith('#') and ' ' in line
FallbackShape(l) ==
    l.tok = "none" /\ l.kind \in BkMarkers \cup (BkFree \ {"other"}) \cup {"extracting", "continuation"}
\* int(parts[0][1:]) does not raise
FallbackNumeric(l) == l.kind # "hashbad"
LegacyStepPattern(l) == AtStart(l) /\ l.kind = "header"
LegacyUsingCachePattern(l) == AtStart(l) /\ l.kind = "using_cache"

\* _detect_format, line 99-100, for one line
Indicates(l) == l.kind \notin {"EOF", "blank"} /\ l.ind

----------------------------------------------------------------------------
(* _parse_buildkit_logs: the body of the loop for one line.  n1, n2 are the
   values of the datetime.now() calls the line makes, in call order. *)

BkState(si, sst, bst, rtc, calls) ==
    [si |-> si, sst |-> sst, bst |-> bst, rtc |-> rtc, calls |-> calls]

\* "timestamp or self.build_start_time or datetime.now()" makes the call
\* only when both are None
NowCalls(timestamp, bst, k) == IF timestamp = None /\ bst = None THEN k ELSE 0

BkCached(l, timestamp, bst, n1, n2) ==
    LET id == BkId(l.id) IN
    IF CachedGroup2(l)
    THEN BkState(DictSet(step_info, id,
                    BuildStep(id, "FROM base", Or3(timestamp, bst, Some(n1)),
                              Or3(timestamp, bst, Some(n2)), Some(0),
                              "stage-0", "1/6", TRUE)),
                 step_start_times, bst, relative_time_counter,
                 NowCalls(timestamp, bst, 2))
    ELSE IF DictHas(step_info, id)
    THEN LET s == DictGet(step_info, id) IN
         BkState(DictSet(step_info, id,
                    [s EXCEPT !.is_cached = TRUE, !.duration = Some(0),
                              !.end_time = s.start_time]),
                 step_start_times, bst, relative_time_counter, 0)
    ELSE BkState(step_info, step_start_times, bst, relative_time_counter, 0)

\* A start line that records the step without a start time
BkStartNoTime(l, timestamp, bst, n1, n2) ==
    LET id == BkId(l.id) IN
    IF ~DictHas(step_start_times, id)
    THEN BkState(DictSet(step_info, id,
                    BuildStep(id, "RUN make", None, None, None, "stage-0", "2/6", FALSE)),
                 DictSet(step_start_times, id, [step_id |-> id, time |-> None]),
                 bst, relative_time_counter, 0)
    ELSE BkState(step_info, step_start_times, bst, relative_time_counter, 0)

BkStart(l, timestamp, bst, n1, n2) ==
    LET id == BkId(l.id)
        st == Or3(timestamp, bst, Some(n1))
    IN
    IF ~DictHas(step_start_times, id)
    THEN BkState(DictSet(step_info, id,
                    BuildStep(id, "RUN make", st, None, None, "stage-0", "2/6", FALSE)),
                 DictSet(step_start_times, id, [step_id |-> id, time |-> st]),
                 bst, relative_time_counter, NowCalls(timestamp, bst, 1))
    ELSE BkState(step_info, step_start_times, bst, relative_time_counter, 0)

\* A completion line that makes a record for an id that has none
BkDoneFabricates(l, timestamp, bst, n1, n2) ==
    BkState(DictSet(step_info, BkId(l.id),
                BuildStep(BkId(l.id), "", Or3(timestamp, bst, Some(n1)), None, l.dur,
                          "OTHER", "", FALSE)),
            step_start_times, bst, relative_time_counter, NowCalls(timestamp, bst, 1))

BkDone(l, timestamp, bst, n1, n2) ==
    LET id == BkId(l.id)
        duration == Val(l.dur)      \* _parse_duration(match.group(2))
    IN
    IF DictHas(step_info, id) /\ ~DictGet(step_info, id).is_cached
    THEN LET s == DictGet(step_info, id) IN
         IF s.start_time # None
         THEN BkState(DictSet(step_info, id,
                        [s EXCEPT !.duration = Some(duration),
                                  !.end_time = Shift(s.start_time, duration)]),
                      step_start_times, bst, relative_time_counter, 0)
         ELSE LET bst2 == IF bst = None THEN Some(n1) ELSE bst
                  st == Val(bst2) + relative_time_counter
              IN BkState(DictSet(step_info, id,
                            [s EXCEPT !.duration = Some(duration),
                                      !.start_time = Some(st),
                                      !.end_time = Some(st + duration)]),
                         step_start_times, bst2, relative_time_counter + duration,
                         IF bst = None THEN 1 ELSE 0)
    ELSE BkState(step_info, step_start_times, bst, relative_time_counter, 0)

\* "Update progress": pass
BkProgress(l, timestamp, bst, n1, n2) ==
    BkState(step_info, step_start_times, bst, relative_time_counter, 0)

BkSimple(l, timestamp, bst, n1, n2) ==
    LET id == BkId(l.id) IN
    IF ~DictHas(step_info, id)
    THEN BkState(DictSet(step_info, id,
                    BuildStep(id, "load build definition", Or3(timestamp, bst, Some(n1)),
                              None, None, "internal", "", FALSE)),
                 step_start_times, bst, relative_time_counter,
                 NowCalls(timestamp, bst, 1))
    ELSE BkState(step_info, step_start_times, bst, relative_time_counter, 0)

BkExtracting(l, timestamp, bst, n1, n2) ==
    LET id == BkId(l.id) IN
    IF DictHas(step_info, id) /\ ExtractingGroup3(l) # None
    THEN LET s == DictGet(step_info, id)
             prior == IF s.duration = None THEN 0 ELSE Val(s.duration)   \* duration or 0
         IN BkState(DictSet(step_info, id,
                        [s EXCEPT !.duration = Some(prior + Val(ExtractingGroup3(l)))]),
                    step_start_times, bst, relative_time_counter, 0)
    ELSE BkState(step_info, step_start_times, bst, relative_time_counter, 0)

\* loading, transferring, continuation: nothing is assigned
BkInert(l, timestamp, bst, n1, n2) ==
    BkState(step_info, step_start_times, bst, relative_time_counter, 0)

BkFallback(l, timestamp, bst, n1, n2) ==
    LET id == BkId(l.id) IN     \* f"#{int(parts[0][1:])}"
    IF FallbackNumeric(l) /\ ~DictHas(step_info, id)
    THEN BkState(DictSet(step_info, id,
                    BuildStep(id, "exporting to image", Or3(timestamp, bst, Some(n1)),
                              None, None, "OTHER", "", FALSE)),
                 step_start_times, bst, relative_time_counter,
                 NowCalls(timestamp, bst, 1))
    ELSE BkState(step_info, step_start_times, bst, relative_time_counter, 0)

\* The if / elif chain of lines 124-245, in its order
BkDispatch(line, timestamp, bst, n1, n2) ==
    IF CachedPattern(line) THEN BkCached(line, timestamp, bst, n1, n2)
    ELSE IF StartPattern(line) THEN BkStart(line, timestamp, bst, n1, n2)
    ELSE IF DonePattern(line) THEN BkDone(line, timestamp, bst, n1, n2)
    ELSE IF ProgressPattern(line) THEN BkProgress(line, timestamp, bst, n1, n2)
    ELSE IF SimplePattern(line) THEN BkSimple(line, timestamp, bst, n1, n2)
    ELSE IF ExtractingPattern(line) THEN BkExtracting(line, timestamp, bst, n1, n2)
    ELSE IF LoadingPattern(line) \/ TransferringPattern(line) \/ ContinuationPattern(line)
         THEN BkInert(line, timestamp, bst, n1, n2)
    ELSE IF FallbackShape(line) THEN BkFallback(line, timestamp, bst, n1, n2)
    ELSE BkState(step_info, step_start_times, bst, relative_time_counter, 0)

\* Lines 111-121, then the chain
BkHandle(l, n1, n2) ==
    LET stripped == Strip(l) IN
    IF stripped.kind = "blank"
    THEN BkState(step_info, step_start_times, build_start_time, relative_time_counter, 0)
    ELSE LET timestamp == ExtractTimestamp(stripped)
             bst == IF timestamp # None /\ build_start_time = None
                    THEN timestamp ELSE build_start_time
         IN BkDispatch(TimestampSub(stripped), timestamp, bst, n1, n2)

----------------------------------------------------------------------------
(* _calculate_relative_times *)

\* Position of element i after a stable ascending sort on keys
SortRank(keys, i) ==
    1 + Cardinality({j \in DOMAIN keys :
                        keys[j] < keys[i] \/ (keys[j] = keys[i] /\ j < i)})
\* list.sort / sorted: the r-th entry is the index of the element placed r-th
SortOrder(keys) ==
    [r \in DOMAIN keys |-> CHOOSE i \in DOMAIN keys : SortRank(keys, i) = r]

\* The loop of lines 337-351 over the sorted list, from position k with the
\* cursor at current_time
RECURSIVE RelativeWalk(_, _, _)
RelativeWalk(sorted, k, current_time) ==
    IF k > Len(sorted) THEN <<>>
    ELSE LET step == sorted[k] IN
         IF step.is_cached
         THEN <<[step EXCEPT !.start_time = Some(current_time),
                             !.end_time = Some(current_time)]>>
              \o RelativeWalk(sorted, k + 1, current_time)
         ELSE IF step.duration # None
         THEN <<[step EXCEPT !.start_time = Some(current_time),
                             !.end_time = Some(current_time + Val(step.duration))]>>
              \o RelativeWalk(sorted, k + 1, current_time + Val(step.duration))
         ELSE <<[step EXCEPT !.start_time = Some(current_time),
                             !.duration = Some(SyntheticDuration),
                             !.end_time = Some(current_time + 1)]>>
              \o RelativeWalk(sorted, k + 1, current_time + 1)

\* The caller's list left in the order of the sort of line 335
CalculateRelativeTimesSorted(l, base_time) ==
    LET order == SortOrder([i \in DOMAIN l |-> StepNum(l[i].step_id)])
    IN RelativeWalk([r \in DOMAIN l |-> l[order[r]]], 1, base_time)

\* The walk without the sort of line 335
CalculateRelativeTimesUnsorted(l, base_time) == RelativeWalk(l, 1, base_time)

\* The walk in which a step without duration does not move the cursor
RECURSIVE RelativeWalkStill(_, _, _)
RelativeWalkStill(sorted, k, current_time) ==
    IF k > Len(sorted) THEN <<>>
    ELSE LET step == sorted[k] IN
         IF step.is_cached
         THEN <<[step EXCEPT !.start_time = Some(current_time),
                             !.end_time = Some(current_time)]>>
              \o RelativeWalkStill(sorted, k + 1, current_time)
         ELSE IF step.duration # None
         THEN <<[step EXCEPT !.start_time = Some(current_time),
                             !.end_time = Some(current_time + Val(step.duration))]>>
              \o RelativeWalkStill(sorted, k + 1, current_time + Val(step.duration))
         ELSE <<[step EXCEPT !.start_time = Some(current_time),
                             !.duration = Some(SyntheticDuration),
                             !.end_time = Some(current_time + 1)]>>
              \o RelativeWalkStill(sorted, k + 1, current_time)
CalculateRelativeTimesStill(l, base_time) ==
    LET order == SortOrder([i \in DOMAIN l |-> StepNum(l[i].step_id)])
        sorted == [r \in DOMAIN l |-> l[order[r]]]
        walked == RelativeWalkStill(sorted, 1, base_time)
    IN [i \in DOMAIN l |-> walked[CHOOSE r \in DOMAIN l : order[r] = i]]

\* Every step placed at the base time: no cursor
CalculateRelativeTimesFromBase(l, base_time) ==
    [i \in DOMAIN l |->
        IF l[i].is_cached
        THEN [l[i] EXCEPT !.start_time = Some(base_time), !.end_time = Some(base_time)]
        ELSE IF l[i].duration # None
        THEN [l[i] EXCEPT !.start_time = Some(base_time),
                          !.end_time = Some(base_time + Val(l[i].duration))]
        ELSE [l[i] EXCEPT !.start_time = Some(base_time),
                          !.duration = Some(SyntheticDuration),
                          !.end_time = Some(base_time + 1)]]

\* The records of list l after _calculate_relative_times(l) with
\* datetime.now() = base_time, in the order of the caller's list: the method
\* sorts its own copy of the list and updates the shared records in place.
CalculateRelativeTimes(l, base_time) ==
    LET order == SortOrder([i \in DOMAIN l |-> StepNum(l[i].step_id)])
        sorted == [r \in DOMAIN l |-> l[order[r]]]
        walked == RelativeWalk(sorted, 1, base_time)
    IN [i \in DOMAIN l |-> walked[CHOOSE r \in DOMAIN l : order[r] = i]]

----------------------------------------------------------------------------
(* _parse_legacy_logs: the body of the loop for lines[i] = l, with
   nxt = lines[i + 1] or EOF; n1 is the value of datetime.now() if called *)

HasRUN(desc) == desc = "RUN make"       \* "RUN" in match.group(2)

LgState(st, cs, sc, bst, calls) ==
    [steps |-> st, current_step |-> cs, step_counter |-> sc, bst |-> bst, calls |-> calls]

LgHeader(line, timestamp, bst, n1) ==
    LgState(IF current_step # None THEN Append(steps, Val(current_step)) ELSE steps,
            Some(BuildStep(LegacyId(step_counter + 1), line.desc,
                           Or3(timestamp, bst, Some(n1)), None, None,
                           IF HasRUN(line.desc) THEN "RUN" ELSE "OTHER",
                           line.label, FALSE)),
            step_counter + 1, bst, NowCalls(timestamp, bst, 1))

LgUsingCache(bst) ==
    LET s == Val(current_step) IN
    LgState(steps,
            Some([s EXCEPT !.is_cached = TRUE, !.duration = Some(0),
                           !.end_time = s.start_time]),
            step_counter, bst, 0)

\* The lookahead measuring from the next header back to itself
LgLookaheadNoDuration(nxt, bst) ==
    LET s == Val(current_step)
        next_line == TimestampSub(Strip(nxt))
        next_timestamp == ExtractTimestamp(nxt)
    IN
    IF LegacyStepPattern(next_line) /\ s.start_time # None /\ next_timestamp # None
    THEN LgState(steps,
                 Some([s EXCEPT !.end_time = next_timestamp,
                                !.duration = Some(Val(next_timestamp) - Val(next_timestamp))]),
                 step_counter, bst, 0)
    ELSE LgState(steps, current_step, step_counter, bst, 0)

LgLookahead(nxt, bst) ==
    LET s == Val(current_step)
        next_line == TimestampSub(Strip(nxt))
        next_timestamp == ExtractTimestamp(nxt)     \* of the raw lines[i + 1]
    IN
    IF LegacyStepPattern(next_line) /\ s.start_time # None /\ next_timestamp # None
    THEN LgState(steps,
                 Some([s EXCEPT !.end_time = next_timestamp,
                                !.duration = Some(Val(next_timestamp) - Val(s.start_time))]),
                 step_counter, bst, 0)
    ELSE LgState(steps, current_step, step_counter, bst, 0)

\* Line 303 subtracts a naive and an aware datetime: TypeError
LookaheadRaises(nxt) ==
    LET s == Val(current_step)
        next_line == TimestampSub(Strip(nxt))
        next_timestamp == ExtractTimestamp(nxt)
    IN /\ LegacyStepPattern(next_line)
       /\ s.start_time # None /\ next_timestamp # None
       /\ Aware(next_timestamp) # Aware(s.start_time)

\* The iteration for lines[i] = l raises: it reaches the lookahead branch
LgRaises(l, nxt) ==
    LET line == TimestampSub(Strip(l)) IN
    /\ l.kind # "blank"
    /\ ~LegacyStepPattern(line)
    /\ ~(current_step # None /\ LegacyUsingCachePattern(line))
    /\ current_step # None /\ nxt.kind # "EOF"
    /\ LookaheadRaises(nxt)

LgHandle(l, nxt, n1) ==
    LET stripped == Strip(l) IN
    IF stripped.kind = "blank"
    THEN LgState(steps, current_step, step_counter, build_start_time, 0)
    ELSE LET timestamp == ExtractTimestamp(stripped)
             bst == IF timestamp # None /\ build_start_time = None
                    THEN timestamp ELSE build_start_time
             line == TimestampSub(stripped)
         IN IF LegacyStepPattern(line) THEN LgHeader(line, timestamp, bst, n1)
            ELSE IF current_step # None /\ LegacyUsingCachePattern(line) THEN LgUsingCache(bst)
            ELSE IF current_step # None /\ nxt.kind # "EOF" THEN LgLookahead(nxt, bst)
            ELSE LgState(steps, current_step, step_counter, bst, 0)

----------------------------------------------------------------------------
(* detect_parallelism *)

\* The test with its second comparison left out
StepsOverlapOneSided(step1, step2) ==
    IF step1.start_time = None \/ step1.end_time = None
       \/ step2.start_time = None \/ step2.end_time = None
    THEN FALSE
    ELSE ~(Val(step1.end_time) <= Val(step2.start_time))

\* The test with strict comparisons: touching intervals count as overlapping
StepsOverlapTouching(step1, step2) ==
    IF step1.start_time = None \/ step1.end_time = None
       \/ step2.start_time = None \/ step2.end_time = None
    THEN FALSE
    ELSE ~(Val(step1.end_time) < Val(step2.start_time)
           \/ Val(step2.end_time) < Val(step1.start_time))

\* _steps_overlap
StepsOverlap(step1, step2) ==
    IF step1.start_time = None \/ step1.end_time = None
       \/ step2.start_time = None \/ step2.end_time = None
    THEN FALSE
    ELSE ~(Val(step1.end_time) <= Val(step2.start_time)
           \/ Val(step2.end_time) <= Val(step1.start_time))

\* [x for x in l if Test(x)]
Filter(l, Test(_)) == SelectSeq(l, Test)

\* The inner loop of line 363: the ids of the steps of sorted_steps, from
\* position j on, that overlap sorted_steps[i]
RECURSIVE ParallelWith(_, _, _)
ParallelWith(sorted_steps, i, j) ==
    IF j > Len(sorted_steps) THEN <<>>
    ELSE (IF i # j /\ StepsOverlap(sorted_steps[i], sorted_steps[j])
          THEN <<sorted_steps[j].step_id>> ELSE <<>>)
         \o ParallelWith(sorted_steps, i, j + 1)

\* The outer loop of line 361 from position i on, with the dict built so far.
\* An entry of the dict is [step_id, parallel_with].
RECURSIVE ParallelGroups(_, _, _)
ParallelGroups(sorted_steps, i, parallel_groups) ==
    IF i > Len(sorted_steps) THEN parallel_groups
    ELSE LET parallel_with == ParallelWith(sorted_steps, i, 1)
             id == sorted_steps[i].step_id
         IN ParallelGroups(sorted_steps, i + 1,
                IF parallel_with # <<>>
                THEN DictSet(parallel_groups, id,
                             [step_id |-> id, parallel_with |-> parallel_with])
                ELSE parallel_groups)

\* A naive and an aware datetime are compared (TypeError): by the sort of
\* line 359, or by _steps_overlap on a pair of steps with all four times
DetectParallelismRaises(l) ==
    LET valid_steps == Filter(l, LAMBDA s : s.start_time # None) IN
    \/ \E i, j \in DOMAIN valid_steps :
          Aware(valid_steps[i].start_time) # Aware(valid_steps[j].start_time)
    \/ \E i, j \in DOMAIN valid_steps :
          /\ i # j
          /\ valid_steps[i].end_time # None /\ valid_steps[j].end_time # None
          /\ Aware(valid_steps[i].end_time) # Aware(valid_steps[j].start_time)

DetectParallelism(l) ==
    LET valid_steps == Filter(l, LAMBDA s : s.start_time # None)
        order == SortOrder([i \in DOMAIN valid_steps |-> Val(valid_steps[i].start_time)])
        sorted_steps == [r \in DOMAIN valid_steps |-> valid_steps[order[r]]]
    IN ParallelGroups(sorted_steps, 1, <<>>)

----------------------------------------------------------------------------
(* identify_bottlenecks.  The outcome is [raised, value]: raised when the
   subscript of line 386 is out of range (IndexError). *)

\* int(len(durations) * threshold_percentile / 100), for 0 <= percentile
ThresholdIndex(n, threshold_percentile) == (n * threshold_percentile) \div 100

\* The filter of line 388 with a strict comparison
IdentifyBottlenecksStrict(l, threshold_percentile) ==
    LET non_cached_steps == Filter(l, LAMBDA s : ~s.is_cached /\ s.duration # None)
        durations == [i \in DOMAIN non_cached_steps |-> Val(non_cached_steps[i].duration)]
        order == SortOrder(durations)
        sorted == [r \in DOMAIN durations |-> durations[order[r]]]
        index == ThresholdIndex(Len(durations), threshold_percentile)
    IN
    IF non_cached_steps = <<>> THEN [raised |-> FALSE, value |-> <<>>]
    ELSE IF index >= Len(sorted) THEN [raised |-> TRUE, value |-> <<>>]
    ELSE [raised |-> FALSE,
          value |-> Filter(non_cached_steps,
                           LAMBDA s : Val(s.duration) > sorted[index + 1])]

IdentifyBottlenecks(l, threshold_percentile) ==
    LET non_cached_steps == Filter(l, LAMBDA s : ~s.is_cached /\ s.duration # None)
        durations == [i \in DOMAIN non_cached_steps |-> Val(non_cached_steps[i].duration)]
        order == SortOrder(durations)
        sorted == [r \in DOMAIN durations |-> durations[order[r]]]
        index == ThresholdIndex(Len(durations), threshold_percentile)
    IN
    IF non_cached_steps = <<>> THEN [raised |-> FALSE, value |-> <<>>]
    ELSE IF index >= Len(sorted) THEN [raised |-> TRUE, value |-> <<>>]
    ELSE [raised |-> FALSE,
          value |-> Filter(non_cached_steps,
                           LAMBDA s : Val(s.duration) >= sorted[index + 1])]

----------------------------------------------------------------------------
ParserInit ==
    /\ pc = "idle"
    /\ is_buildkit = FALSE
    /\ build_start_time = None
    /\ relative_time_counter = 0
    /\ step_start_times = <<>>
    /\ step_info = <<>>
    /\ steps = <<>>
    /\ current_step = None
    /\ step_counter = 0
    /\ cur = EOF
    /\ lineNo = 0
    /\ clock = 1
    /\ result = <<>>
    /\ indicator = FALSE
    /\ sawTimestamp = FALSE
    /\ headers = <<>>
    /\ prevRaw = "none"
    /\ created = <<>>
    /\ bare_cached = {}
    /\ sawOpener = FALSE
    /\ inert_seen = {}

NoBottlenecks == [raised |-> FALSE, value |-> <<>>]

\* No document has been handed to _detect_format
DetectIdle ==
    /\ d_pc = "scan"
    /\ d_i = 0
    /\ d_found = FALSE
    /\ d_nonempty = 0
    /\ d_expected = FALSE
    /\ d_last_blank = FALSE

\* process_logs has not run
DisplayIdle ==
    /\ v_pc = "idle"
    /\ v_error = ""
    /\ y_positions = [raised |-> FALSE, value |-> <<>>]

\* No document has been parsed
ReuseIdle ==
    /\ r_phase = "first"
    /\ doc = <<>>
    /\ used_result = <<>>

Init ==
    /\ ParserInit
    /\ a_pc = "input"
    /\ a_steps = <<>>
    /\ a_pct = 0
    /\ a_groups = <<>>
    /\ a_bottlenecks = NoBottlenecks
    /\ DetectIdle
    /\ ReuseIdle
    /\ DisplayIdle

\* datetime.now() never runs backwards: the values a call can return
Now == {n \in NowValues : n >= clock}
\* The values of two successive calls
NowPairs == {p \in Now \X Now : p[1] <= p[2]}
\* The values drawn by a handler that makes the given number of calls (the
\* number depends on the line and the state, not on the values): a call not
\* made repeats the value before it
Draws(calls) ==
    IF calls = 0 THEN {<<clock, clock>>}
    ELSE IF calls = 1 THEN {p \in NowPairs : p[2] = p[1]}
    ELSE NowPairs

\* The ids that have a record in new and none in old, in the order of new
NewIds(old, new) ==
    LET ids == [i \in DOMAIN new |-> new[i].step_id]
    IN SelectSeq(ids, LAMBDA id : ~DictHas(old, id))

\* Line l reaches the bare branch of lines 138-142 and finds a record
BareCachedHit(l) ==
    LET line == TimestampSub(Strip(l)) IN
    /\ l.kind # "blank"
    /\ CachedPattern(line) /\ ~CachedGroup2(line)
    /\ DictHas(step_info, BkId(l.id))

\* parse_logs, lines 85-93: split the document, detect its format, enter the
\* parser.  The document is read line by line as the parser consumes it;
\* fmt is the outcome of _detect_format on it, which the parser's return
\* checks against the lines read (indicator).
EnterParser(fmt, first) ==
    /\ is_buildkit' = fmt
    /\ pc' = IF fmt THEN "buildkit" ELSE "legacy"
    /\ cur' = IF fmt THEN EOF ELSE first
    /\ ~first.indent                        \* log_content.strip()
    /\ step_start_times' = <<>>
    /\ step_info' = <<>>
    /\ steps' = <<>>
    /\ current_step' = None
    /\ step_counter' = 0
    /\ lineNo' = 0
    /\ indicator' = FALSE
    /\ sawTimestamp' = FALSE
    /\ headers' = <<>>
    /\ prevRaw' = "none"
    /\ created' = <<>>
    /\ bare_cached' = {}
    /\ sawOpener' = FALSE
    /\ inert_seen' = {}
    /\ result' = <<>>
    /\ UNCHANGED <<analysisVars, detectVars, displayVars>>

\* parse_logs called on a newly constructed parser
ParseLogs(fmt, first) ==
    /\ pc = "idle"
    /\ EnterParser(fmt, first)
    /\ UNCHANGED <<build_start_time, relative_time_counter, clock>>
    /\ UNCHANGED reuseVars

\* One iteration of the loop of _parse_buildkit_logs (lines 110-245)
BuildkitStep(l) ==
    /\ pc = "buildkit"
    /\ lineNo < MaxLines
    /\ \E now \in Draws(BkHandle(l, clock, clock).calls) :
         LET h == BkHandle(l, now[1], now[2]) IN
         /\ step_info' = h.si
         /\ step_start_times' = h.sst
         /\ build_start_time' = h.bst
         /\ relative_time_counter' = h.rtc
         /\ clock' = now[2]
    /\ lineNo' = lineNo + 1
    /\ indicator' = (indicator \/ (lineNo < DetectWindow /\ Indicates(TimestampSub(Strip(l)))))
    /\ sawTimestamp' = (sawTimestamp \/ ExtractTimestamp(Strip(l)) # None)
    /\ created' = created \o NewIds(step_info, step_info')
    /\ bare_cached' = IF BareCachedHit(l) THEN bare_cached \cup {l.id} ELSE bare_cached
    /\ sawOpener' = (sawOpener \/ l.kind \in BkOpeners)
    /\ UNCHANGED <<pc, is_buildkit, prevRaw, steps, current_step, step_counter, cur, result,
                   headers>>
    /\ UNCHANGED <<analysisVars, detectVars, displayVars>>

\* The iteration for the next line of a document
BuildkitLine(l) ==
    /\ BuildkitStep(l)
    /\ UNCHANGED inert_seen
    /\ UNCHANGED reuseVars

\* End of _parse_buildkit_logs (lines 247-251)
BuildkitReturn ==
    /\ pc = "buildkit"
    /\ indicator                \* _detect_format did set is_buildkit
    /\ IF build_start_time = None /\ step_info # <<>>
       THEN \E base_time \in Now :
               /\ clock' = base_time
               /\ build_start_time' = Some(base_time)
               /\ result' = CalculateRelativeTimes(step_info, base_time)
       ELSE /\ result' = step_info
            /\ UNCHANGED <<clock, build_start_time>>
    /\ step_info' = result'
    /\ pc' = "done"
    /\ UNCHANGED <<is_buildkit, relative_time_counter, step_start_times, steps,
                   current_step, step_counter, cur, lineNo, indicator,
                   sawTimestamp, headers, prevRaw, created, sawOpener, bare_cached,
                   inert_seen>>
    /\ UNCHANGED <<analysisVars, detectVars, reuseVars, displayVars>>

\* One iteration of the loop of _parse_legacy_logs (lines 259-303)
LegacyLine(nxt) ==
    /\ pc = "legacy"
    /\ cur.kind # "EOF"
    /\ nxt.kind # "EOF" => lineNo + 1 < MaxLegacyLines
    /\ nxt.kind = "header" => Len(headers) + (IF cur.kind = "header" THEN 1 ELSE 0) < MaxHeaders
    /\ (lineNo = 0 /\ cur.kind = "blank") => nxt.kind = "EOF"       \* log_content.strip()
    /\ (lineNo > 0 /\ cur.kind = "blank") => nxt.kind # "EOF"
    /\ \E now \in Draws(LgHandle(cur, nxt, clock).calls) :
         LET h == LgHandle(cur, nxt, now[1]) IN
         /\ steps' = h.steps
         /\ current_step' = h.current_step
         /\ step_counter' = h.step_counter
         /\ build_start_time' = h.bst
         /\ clock' = now[1]
    /\ pc' = IF LgRaises(cur, nxt) THEN "raised" ELSE pc
    /\ cur' = nxt
    /\ lineNo' = lineNo + 1
    /\ sawTimestamp' = (sawTimestamp \/ cur.tok \in {"ok", "tz"})
    /\ headers' = IF LegacyStepPattern(TimestampSub(Strip(cur)))
                  THEN Append(headers, [tok |-> cur.tok, t |-> cur.t,
                                        indent |-> cur.indent, prev |-> prevRaw,
                                        label |-> cur.label, marked |-> FALSE])
                  ELSE IF cur.kind = "using_cache" /\ headers # <<>>
                  THEN [headers EXCEPT ![Len(headers)].marked = TRUE]
                  ELSE headers
    /\ prevRaw' = cur.kind
    /\ created' = IF step_counter' > step_counter
                  THEN Append(created, Val(current_step').step_id) ELSE created
    /\ UNCHANGED <<is_buildkit, relative_time_counter, step_start_times,
                   step_info, result, indicator, bare_cached, inert_seen>>
    /\ sawOpener' = (sawOpener \/ cur.kind = "header")
    /\ UNCHANGED <<analysisVars, detectVars, reuseVars, displayVars>>

\* End of _parse_legacy_logs (lines 305-309)
LegacyReturn ==
    /\ pc = "legacy"
    /\ cur.kind = "EOF"
    /\ steps' = IF current_step # None THEN Append(steps, Val(current_step)) ELSE steps
    /\ result' = steps'
    /\ pc' = "done"
    /\ UNCHANGED <<is_buildkit, build_start_time, relative_time_counter,
                   step_start_times, step_info, current_step, step_counter, cur,
                   lineNo, clock, indicator, sawTimestamp, headers, prevRaw,
                   created, sawOpener, bare_cached, inert_seen>>
    /\ UNCHANGED <<analysisVars, detectVars, reuseVars, displayVars>>

Next ==
    \/ \E fmt \in BOOLEAN, first \in LegacyLines : ParseLogs(fmt, first)
    \/ \E l \in BkLines : BuildkitLine(l)
    \/ BuildkitReturn
    \/ \E nxt \in LegacyLines \cup {EOF} : LegacyLine(nxt)
    \/ LegacyReturn

Spec == Init /\ [][Next]_vars

----------------------------------------------------------------------------
(* Properties of the list returned by parse_logs *)

Returned == pc = "done"
Range(q) == {q[i] : i \in DOMAIN q}
\* The records as they stand when the parser's loop has ended
LoopRecords ==
    IF pc = "buildkit" THEN step_info
    ELSE IF current_step # None THEN Append(steps, Val(current_step)) ELSE steps
Returning == pc # "done" /\ pc' = "done"

(* C1: every returned step that is cached has duration 0.0 and an end time
   equal to its start time. *)
CacheInvariant ==
    Returned => \A i \in DOMAIN result :
        result[i].is_cached =>
            result[i].duration = Some(0) /\ result[i].end_time = result[i].start_time

(* C2: every returned step has a start time. *)
StartTimeNonNull ==
    Returned => \A i \in DOMAIN result : result[i].start_time # None

\* Both parsers have returned steps whose start time no line supplied
StartTimeWitness ==
    /\ Returned
    /\ ~sawTimestamp
    /\ Len(result) >= 2
    /\ \E i \in DOMAIN result : result[i].end_time = None

(* C3: the duration of every returned step is None or not negative. *)
DurationNonNegative ==
    Returned => \A i \in DOMAIN result :
        result[i].duration = None \/ Val(result[i].duration) >= 0

(* C4, as claimed: for a document without timestamps, in either format,
   every returned step has start and end time, each step starts no earlier
   than the step returned before it ends, and every step that is not cached
   and had no duration when the lines were read has duration 1.0. *)
SynthesizedTimelineAnyFormat ==
    /\ [](Returned /\ ~sawTimestamp =>
            /\ \A i \in DOMAIN result :
                  result[i].start_time # None /\ result[i].end_time # None
            /\ \A i \in DOMAIN result : i > 1 =>
                  Val(result[i].start_time) >= Val(result[i - 1].end_time))
    /\ [][Returning /\ ~sawTimestamp =>
            \A i \in DOMAIN LoopRecords :
                ~LoopRecords[i].is_cached /\ LoopRecords[i].duration = None
                    => result'[i].duration = Some(SyntheticDuration)]_vars

(* C4, amended: for a BuildKit document without timestamps, every returned
   step has start and end time, a step starts no earlier than every step of
   smaller number ends, and every step that is not cached and had no
   duration when the lines were read has duration 1.0. *)
SynthesizedTimelineBuildkit ==
    /\ [](Returned /\ is_buildkit /\ ~sawTimestamp =>
            /\ \A i \in DOMAIN result :
                  result[i].start_time # None /\ result[i].end_time # None
            /\ \A i, j \in DOMAIN result :
                  StepNum(result[i].step_id) < StepNum(result[j].step_id) =>
                      Val(result[j].start_time) >= Val(result[i].end_time))
    /\ [][Returning /\ is_buildkit /\ ~sawTimestamp =>
            \A i \in DOMAIN LoopRecords :
                ~LoopRecords[i].is_cached /\ LoopRecords[i].duration = None
                    => result'[i].duration = Some(SyntheticDuration)]_vars

\* A BuildKit document without timestamps whose steps appear out of numeric
\* order, one of them with a duration from the log, one without
SynthesizedTimelineWitness ==
    /\ Returned /\ is_buildkit /\ ~sawTimestamp
    /\ Len(result) = 2
    /\ StepNum(result[1].step_id) > StepNum(result[2].step_id)
    /\ Val(result[1].start_time) > Val(result[2].start_time)
    /\ \E i \in DOMAIN result : ~result[i].is_cached /\ relative_time_counter = 0
          /\ Val(result[i].end_time) = Val(result[i].start_time) + SyntheticDuration

(* C9: the legacy parser returns one record per header line, in header
   order, the j-th with step_id 'Step j' and the header's k/m label as
   layer_info; a step followed by a using-cache marker is returned cached
   with duration 0.0; without timestamps every other step has duration None. *)
LegacyOneRecordPerHeader ==
    Returned /\ ~is_buildkit =>
        /\ Len(result) = Len(headers)
        /\ \A j \in DOMAIN result :
              /\ result[j].step_id = LegacyId(j)
              /\ result[j].layer_info = headers[j].label
              /\ headers[j].marked =>
                    result[j].is_cached /\ result[j].duration = Some(0)
              /\ ~sawTimestamp /\ ~headers[j].marked => result[j].duration = None

AllHeadersStamped == \A j \in DOMAIN headers : headers[j].tok = "ok"

(* C10, as claimed: when every header carries a timestamp, every step that
   is not cached and is followed by another header ends at that header's
   timestamp and lasts from its own start to it. *)
LegacyDurationFromNextHeader ==
    Returned /\ ~is_buildkit /\ AllHeadersStamped =>
        \A j \in DOMAIN result :
            j < Len(result) /\ ~result[j].is_cached =>
                /\ result[j].end_time = Some(headers[j + 1].t)
                /\ result[j].duration = Some(headers[j + 1].t - Val(result[j].start_time))

(* C10, amended: when every header carries a timestamp, every step that is
   not cached and whose next header comes right after an output line (not
   after the step's own header, a using-cache marker or a blank line) and
   has its timestamp at the very start of the raw line ends at that header's
   timestamp and lasts from its own start to it. *)
LegacyDurationFromLookahead ==
    Returned /\ ~is_buildkit /\ AllHeadersStamped =>
        \A j \in DOMAIN result :
            (/\ j < Len(result) /\ ~result[j].is_cached
             /\ headers[j + 1].prev = "other" /\ ~headers[j + 1].indent) =>
                /\ result[j].end_time = Some(headers[j + 1].t)
                /\ result[j].duration = Some(headers[j + 1].t - Val(result[j].start_time))

\* Two stamped headers with an output line right before the second, the
\* second later than the first
LegacyLookaheadWitness ==
    /\ Returned /\ ~is_buildkit /\ AllHeadersStamped
    /\ Len(result) = 2
    /\ ~result[1].is_cached
    /\ headers[2].prev = "other" /\ ~headers[2].indent
    /\ headers[2].t > headers[1].t

----------------------------------------------------------------------------
(* The analyses as pure functions of an arbitrary list of steps *)

Opt(S) == {None} \cup {Some(x) : x \in S}

\* Steps as the parallelism detector sees them: start and end times
TimedSteps(n) ==
    {BuildStep(BkId(n), "RUN make", st, et, None, "stage-0", "2/6", FALSE) :
        st \in Opt(StepTimes), et \in Opt(StepTimes)}
\* Steps as the bottleneck identifier sees them: duration and cache flag
DurationSteps(n) ==
    {BuildStep(BkId(n), "RUN make", Some(0), None, d, "stage-0", "2/6", c) :
        d \in Opt(StepDurations), c \in BOOLEAN}

\* The caller's list before the analysis runs
AnalysisInit ==
    /\ ParserInit
    /\ a_pc = "input"
    /\ a_steps = <<>>
    /\ a_pct = 0
    /\ a_groups = <<>>
    /\ a_bottlenecks = NoBottlenecks
    /\ DetectIdle
    /\ ReuseIdle
    /\ DisplayIdle

\* The list grows by a step with the next id (step_id is unique in a list
\* of steps)
AddStep(s) ==
    /\ a_pc = "input"
    /\ Len(a_steps) < MaxSteps
    /\ a_steps' = Append(a_steps, s)
    /\ UNCHANGED <<a_pc, a_pct, a_groups, a_bottlenecks>>
    /\ UNCHANGED <<parserVars, detectVars, reuseVars, displayVars>>

DetectParallelismCall ==
    /\ a_pc = "input"
    /\ a_groups' = IF DetectParallelismRaises(a_steps) THEN a_groups
                   ELSE DetectParallelism(a_steps)
    /\ a_pc' = IF DetectParallelismRaises(a_steps) THEN "raised" ELSE "parallelism"
    /\ UNCHANGED <<a_steps, a_pct, a_bottlenecks>>
    /\ UNCHANGED <<parserVars, detectVars, reuseVars, displayVars>>

IdentifyBottlenecksCall(threshold_percentile) ==
    /\ a_pc = "input"
    /\ a_pct' = threshold_percentile
    /\ a_bottlenecks' = IdentifyBottlenecks(a_steps, threshold_percentile)
    /\ a_pc' = "bottlenecks"
    /\ UNCHANGED <<a_steps, a_groups>>
    /\ UNCHANGED <<parserVars, detectVars, reuseVars, displayVars>>

ParallelismNext ==
    \/ \E s \in TimedSteps(Len(a_steps) + 1) : AddStep(s)
    \/ DetectParallelismCall

BottlenecksNext ==
    \/ \E s \in DurationSteps(Len(a_steps) + 1) : AddStep(s)
    \/ \E p \in Percentiles : IdentifyBottlenecksCall(p)

SpecParallelism == AnalysisInit /\ [][ParallelismNext]_vars
SpecBottlenecks == AnalysisInit /\ [][BottlenecksNext]_vars

----------------------------------------------------------------------------
(* Properties of the analyses *)

\* The list recorded under id in the dict returned by detect_parallelism
Entry(groups, id) ==
    IF DictHas(groups, id) THEN DictGet(groups, id).parallel_with ELSE <<>>
Timed(s) == s.start_time # None /\ s.end_time # None

(* C5: if B is listed under A in the map of detect_parallelism, A is listed
   under B. *)
OverlapSymmetry ==
    a_pc = "parallelism" =>
        \A a \in DOMAIN a_groups : \A b \in Range(a_groups[a].parallel_with) :
            a_groups[a].step_id \in Range(Entry(a_groups, b))

\* Three steps, each listed under another
OverlapSymmetryWitness ==
    /\ a_pc = "parallelism"
    /\ Len(a_groups) = 3
    /\ \E a \in DOMAIN a_groups : Len(a_groups[a].parallel_with) = 1

(* C6: B is listed under A exactly when A and B are distinct, both have
   start and end, and each ends after the other starts; a key is present
   only with a non-empty list, and once. *)
OverlapCharacterisation ==
    a_pc = "parallelism" =>
        /\ \A i, j \in DOMAIN a_steps :
              a_steps[j].step_id \in Range(Entry(a_groups, a_steps[i].step_id))
              <=> (/\ i # j
                   /\ Timed(a_steps[i]) /\ Timed(a_steps[j])
                   /\ Val(a_steps[i].end_time) > Val(a_steps[j].start_time)
                   /\ Val(a_steps[j].end_time) > Val(a_steps[i].start_time))
        /\ \A a \in DOMAIN a_groups :
              /\ a_groups[a].parallel_with # <<>>
              /\ \E i \in DOMAIN a_steps : a_steps[i].step_id = a_groups[a].step_id
              /\ \A b \in DOMAIN a_groups : a_groups[b].step_id = a_groups[a].step_id => a = b

\* Two steps that touch, a third that overlaps one of them, and the map has
\* no key for the step that only touches
OverlapTouchingWitness ==
    /\ a_pc = "parallelism"
    /\ Len(a_steps) = 3
    /\ \E i, j, k \in DOMAIN a_steps :
          /\ Timed(a_steps[i]) /\ Timed(a_steps[j]) /\ Timed(a_steps[k])
          /\ Val(a_steps[i].start_time) < Val(a_steps[i].end_time)
          /\ a_steps[i].end_time = a_steps[j].start_time
          /\ Val(a_steps[j].start_time) < Val(a_steps[j].end_time)
          /\ ~DictHas(a_groups, a_steps[i].step_id)
          /\ DictHas(a_groups, a_steps[j].step_id)
          /\ DictHas(a_groups, a_steps[k].step_id)

Qualifying == Filter(a_steps, LAMBDA s : ~s.is_cached /\ s.duration # None)

(* C7: for percentiles p1 <= p2 between 0 and 100, identify_bottlenecks
   returns for p2 no more steps than for p1. *)
PercentileMonotonicity ==
    a_pc = "bottlenecks" =>
        \A p1 \in Percentiles : p1 <= a_pct =>
            LET b1 == IdentifyBottlenecks(a_steps, p1) IN
            /\ ~b1.raised /\ ~a_bottlenecks.raised
            /\ Len(a_bottlenecks.value) <= Len(b1.value)

(* C8: for every percentile from 0 to 100 and a list with a non-cached step
   of known duration, identify_bottlenecks returns the non-cached steps of
   known duration that last at least as long as the one at index
   floor(count * percentile / 100), clamped to the last index, of the
   ascending durations. *)
BottleneckThresholdClamped ==
    a_pc = "bottlenecks" /\ Qualifying # <<>> =>
        LET n == Len(Qualifying)
            rank == (n * a_pct) \div 100
            clamped == IF rank > n - 1 THEN n - 1 ELSE rank
            \* the duration with exactly 'clamped' durations before it in ascending order
            threshold == CHOOSE d \in {Val(Qualifying[i].duration) : i \in 1..n} :
                /\ Cardinality({i \in 1..n : Val(Qualifying[i].duration) < d}) <= clamped
                /\ Cardinality({i \in 1..n : Val(Qualifying[i].duration) <= d}) > clamped
        IN /\ ~a_bottlenecks.raised
           /\ a_bottlenecks.value = Filter(Qualifying, LAMBDA s : Val(s.duration) >= threshold)

----------------------------------------------------------------------------
(* Properties of the BuildKit line handlers *)

CachedZero(s) == s.is_cached /\ s.duration = Some(0) /\ s.end_time = s.start_time

(* C11: a bare '#n CACHED' line makes an existing record for #n cached with
   duration 0.0 and end time equal to its start time, and the record is
   still so in the returned result; when #n has no record the line creates
   none and changes no record. *)
BareCachedMarker ==
    /\ [][\A l \in BkLines : l.kind = "cached" /\ BuildkitLine(l) =>
              IF DictHas(step_info, BkId(l.id))
              THEN CachedZero(DictGet(step_info', BkId(l.id)))
              ELSE step_info' = step_info]_vars
    /\ [](Returned /\ is_buildkit =>
              \A n \in bare_cached : CachedZero(DictGet(result, BkId(n))))

----------------------------------------------------------------------------
(* _detect_format over a whole document.  The document is log_content.strip()
   split at newlines: it is read line by line, its first and last line are
   not blank (the empty document is the single empty line), and its first
   line does not start with whitespace. *)

\* Lines as the detector sees them: blank, free text, '#n ...' lines without
\* and with DONE, CACHED or '[', the latter also behind a timestamp, behind a
\* malformed token and behind an indented timestamp
DetectLines ==
    {Blank,
     Line("other", "none", 1, FALSE, 1, None, FALSE, FALSE, "", ""),
     Line("hashnum", "none", 1, FALSE, 1, None, FALSE, FALSE, "", ""),
     Line("simple", "none", 1, FALSE, 1, None, FALSE, TRUE, "", ""),
     Line("simple", "ok", 1, FALSE, 1, None, FALSE, TRUE, "", ""),
     Line("simple", "bad", 1, FALSE, 1, None, FALSE, TRUE, "", ""),
     Line("simple", "ok", 1, TRUE, 1, None, FALSE, TRUE, "", "")}

\* Lines 99-100: TIMESTAMP_PATTERN.sub('', line).strip(), then the test
DetectIndicates(l) ==
    LET cleaned_line == Strip(TimestampSub(l)) IN
    cleaned_line.tok = "none" /\ Indicates(cleaned_line)

DetectInit ==
    /\ ParserInit
    /\ a_pc = "input"
    /\ a_steps = <<>>
    /\ a_pct = 0
    /\ a_groups = <<>>
    /\ a_bottlenecks = NoBottlenecks
    /\ DetectIdle
    /\ ReuseIdle
    /\ DisplayIdle

\* The next line of the document.  The loop of line 97 looks at it when it is
\* one of lines[:20]; once the loop has returned the rest is not looked at.
DetectLine(l) ==
    /\ d_pc = "scan"
    /\ d_i < MaxDocLines
    /\ d_i = 0 => ~l.indent
    /\ d_i = 1 => ~d_last_blank
    /\ d_found' = (d_found \/ (d_i < DetectWindow /\ DetectIndicates(l)))
    /\ d_expected' = (d_expected \/ (/\ l.kind # "blank"
                                      /\ d_nonempty < DetectWindow
                                      /\ DetectIndicates(l)))
    /\ d_nonempty' = d_nonempty + (IF l.kind # "blank" THEN 1 ELSE 0)
    /\ d_last_blank' = (l.kind = "blank")
    /\ d_i' = d_i + 1
    /\ UNCHANGED d_pc
    /\ UNCHANGED <<parserVars, analysisVars, reuseVars, displayVars>>

\* End of the document: lines 101-103
DetectReturn ==
    /\ d_pc = "scan"
    /\ d_i >= 1
    /\ d_i > 1 => ~d_last_blank
    /\ is_buildkit' = d_found
    /\ d_pc' = "done"
    /\ UNCHANGED <<d_i, d_found, d_nonempty, d_expected, d_last_blank>>
    /\ UNCHANGED <<pc, build_start_time, relative_time_counter, step_start_times,
                   step_info, steps, current_step, step_counter, cur, lineNo, clock,
                   result, indicator, sawTimestamp, headers, prevRaw, created,
                   sawOpener, bare_cached, inert_seen>>
    /\ UNCHANGED <<analysisVars, reuseVars, displayVars>>

DetectNext ==
    \/ \E l \in DetectLines : DetectLine(l)
    \/ DetectReturn

SpecDetect == DetectInit /\ [][DetectNext]_vars

(* C12: the document is classified BuildKit exactly when one of its first 20
   non-empty lines, stripped of a leading timestamp, starts with '#' and
   contains DONE, CACHED or '['; blank lines do not count toward the 20. *)
DetectionOverNonEmptyLines ==
    d_pc = "done" => (is_buildkit <=> d_expected)

----------------------------------------------------------------------------
(* One parser instance parsing a second document, against a new instance
   parsing that document.  Both documents are BuildKit documents. *)

\* Lines of the documents: step starts without and with a timestamp, a
\* completion, a bare cache marker
ReuseLines ==
    {Line("start", "none", 1, FALSE, n, None, FALSE, TRUE, "", "") : n \in StepNumbers}
    \cup {Line("start", "ok", 1, FALSE, 1, None, FALSE, TRUE, "", ""),
          Line("done", "none", 1, FALSE, 1, Some(1), FALSE, TRUE, "", ""),
          Line("cached", "none", 1, FALSE, 1, None, FALSE, TRUE, "", "")}

\* parse_logs called again on the instance whose first call has returned:
\* lines 85-93 assign is_buildkit and the parser's locals, nothing else
ParseLogsAgain ==
    /\ pc = "done"
    /\ r_phase = "first"
    /\ EnterParser(TRUE, EOF)
    /\ r_phase' = "used"
    /\ UNCHANGED <<build_start_time, relative_time_counter, clock>>
    /\ UNCHANGED <<doc, used_result>>

\* The next line of the second document
ReuseLine(l) ==
    /\ r_phase = "used"
    /\ BuildkitStep(l)
    /\ doc' = Append(doc, l)
    /\ UNCHANGED <<r_phase, used_result, inert_seen>>

\* DockerLogParser() (lines 77-81), then parse_logs on the second document
FreshParseLogs ==
    /\ pc = "done"
    /\ r_phase = "used"
    /\ build_start_time' = None
    /\ relative_time_counter' = 0
    /\ EnterParser(TRUE, EOF)
    /\ used_result' = result
    /\ r_phase' = "fresh"
    /\ UNCHANGED <<clock, doc>>

\* The new instance reads the same lines
ReplayLine ==
    /\ r_phase = "fresh"
    /\ lineNo < Len(doc)
    /\ BuildkitLine(doc[lineNo + 1])

FreshReturn ==
    /\ r_phase = "fresh"
    /\ lineNo = Len(doc)
    /\ BuildkitReturn

ReuseNext ==
    \/ ParseLogs(TRUE, EOF)
    \/ \E l \in ReuseLines : r_phase = "first" /\ BuildkitLine(l)
    \/ r_phase # "fresh" /\ BuildkitReturn
    \/ ParseLogsAgain
    \/ \E l \in ReuseLines : ReuseLine(l)
    \/ FreshParseLogs
    \/ ReplayLine
    \/ FreshReturn

SpecReuse == Init /\ [][ReuseNext]_vars

\* Start and end of step i of list r, measured from the start of r's first step
RelativeTiming(r, i) ==
    [start |-> Val(r[i].start_time) - Val(r[1].start_time),
     end |-> IF r[i].end_time = None THEN None
             ELSE Some(Val(r[i].end_time) - Val(r[1].start_time))]

(* C13: a document parsed on an instance that has parsed a document before
   yields the same step ids, cached flags, durations and relative timing as
   the same document parsed on a new instance. *)
ReuseEqualsFresh ==
    r_phase = "fresh" /\ pc = "done" =>
        /\ Len(used_result) = Len(result)
        /\ \A i \in DOMAIN result :
              /\ used_result[i].step_id = result[i].step_id
              /\ used_result[i].is_cached = result[i].is_cached
              /\ used_result[i].duration = result[i].duration
              /\ RelativeTiming(used_result, i) = RelativeTiming(result, i)

----------------------------------------------------------------------------
(* C14: a line whose leading token has the timestamp shape but is no date
   yields no timestamp and keeps the token for classification: still
   starting with the token it matches no line shape, so it creates no record
   in either parser, and it sets no first-seen timestamp. *)
MalformedTokenKept ==
    [][/\ \A l \in BkLines : l.tok = "bad" /\ BuildkitLine(l) =>
              /\ step_info' = step_info
              /\ build_start_time' = build_start_time
       /\ (pc = "legacy" /\ cur.tok = "bad" /\ lineNo' = lineNo + 1) =>
              /\ step_counter' = step_counter
              /\ build_start_time' = build_start_time]_vars

----------------------------------------------------------------------------
(* Documents that mix lines without timestamp, with a naive timestamp and
   with a zoned timestamp; detect_parallelism applied to the returned list *)

ZoneToks == {<<"none", 1>>, <<"ok", 1>>, <<"tz", 1>>}

ZoneLegacyLines ==
    {Line("header", k[1], k[2], FALSE, 1, None, FALSE, FALSE, "1/2", "RUN make") :
        k \in ZoneToks}
    \cup {Line("other", "none", 1, FALSE, 1, None, FALSE, FALSE, "", "")}

ZoneBkLines ==
    {Line("start", k[1], k[2], FALSE, n, None, FALSE, TRUE, "", "") :
        k \in ZoneToks, n \in StepNumbers}
    \cup {Line("done", "none", 1, FALSE, 1, Some(1), FALSE, TRUE, "", "")}

\* The caller hands the list parse_logs returned to detect_parallelism
DetectParallelismOnResult ==
    /\ pc = "done"
    /\ a_pc = "input"
    /\ a_steps' = result
    /\ a_groups' = IF DetectParallelismRaises(result) THEN a_groups
                   ELSE DetectParallelism(result)
    /\ a_pc' = IF DetectParallelismRaises(result) THEN "raised" ELSE "parallelism"
    /\ UNCHANGED <<a_pct, a_bottlenecks>>
    /\ UNCHANGED <<parserVars, detectVars, reuseVars, displayVars>>

ZoneNext ==
    \/ \E fmt \in BOOLEAN, first \in ZoneLegacyLines : ParseLogs(fmt, first)
    \/ \E l \in ZoneBkLines : BuildkitLine(l)
    \/ BuildkitReturn
    \/ \E nxt \in ZoneLegacyLines \cup {EOF} : LegacyLine(nxt)
    \/ LegacyReturn
    \/ DetectParallelismOnResult

SpecZones == Init /\ [][ZoneNext]_vars

(* C15: parse_logs returns without raising for every document, and
   detect_parallelism returns without raising for the list it returned. *)
NothingFatal == pc # "raised" /\ a_pc # "raised"

----------------------------------------------------------------------------
NoQualifying(l) == Filter(l, LAMBDA s : ~s.is_cached /\ s.duration # None) = <<>>

(* C16: a document with no line that opens a step (the empty document among
   them) returns the empty list; detect_parallelism of the empty list is the
   empty map, and identify_bottlenecks of a returned list with no non-cached
   step of known duration is the empty list, for every percentile, neither
   of them raising. *)
NoStepsNoError ==
    Returned =>
        /\ ~sawOpener => result = <<>>
        /\ result = <<>> =>
              ~DetectParallelismRaises(result) /\ DetectParallelism(result) = <<>>
        /\ NoQualifying(result) =>
              \A p \in Percentiles : IdentifyBottlenecks(result, p) = NoBottlenecks

\* A BuildKit document of several lines that reference steps never opened
NoStepsWitness ==
    /\ Returned /\ is_buildkit
    /\ ~sawOpener
    /\ lineNo >= 2
    /\ result = <<>>

----------------------------------------------------------------------------
\* The records of the run: those of the loop while it runs, then the result
LiveRecords == IF pc = "done" THEN result ELSE LoopRecords
Ids(l) == {l[i].step_id : i \in DOMAIN l}

(* C17: during and after a run no two records have the same step_id; a line
   of the run never removes a record and never adds more than one: the set
   of ids only grows, and a line about an id that has a record leaves the
   number of records as it is. *)
StepIdUnique ==
    /\ [](\A i, j \in DOMAIN LiveRecords :
              LiveRecords[i].step_id = LiveRecords[j].step_id => i = j)
    /\ [][(pc = "buildkit" \/ pc = "legacy") =>
              /\ Ids(LiveRecords) \subseteq Ids(LiveRecords')
              /\ Len(LiveRecords') >= Len(LiveRecords)
              /\ Len(LiveRecords') <= Len(LiveRecords) + 1
              /\ Ids(LiveRecords') = Ids(LiveRecords) =>
                    Len(LiveRecords') = Len(LiveRecords)]_vars

\* A run in which a bare cache marker found the record of an earlier line,
\* and a second step was opened
StepIdUniqueWitness ==
    /\ Returned /\ is_buildkit
    /\ bare_cached # {}
    /\ Len(result) = 2

----------------------------------------------------------------------------
(* C18: the returned list is in the order in which the ids were first given
   a record, in both formats; in the legacy format that is the order of the
   header lines. *)
EmissionOrder ==
    Returned =>
        /\ [i \in DOMAIN result |-> result[i].step_id] = created
        /\ ~is_buildkit =>
              /\ Len(result) = Len(headers)
              /\ \A j \in DOMAIN result :
                    /\ result[j].step_id = LegacyId(j)
                    /\ result[j].layer_info = headers[j].label

\* A BuildKit document without timestamps (the synthesizer has run) in which
\* #2 got its record before #1 and was then re-created by an extended CACHED
\* line
EmissionOrderWitness ==
    /\ Returned /\ is_buildkit /\ ~sawTimestamp
    /\ created = <<BkId(2), BkId(1)>>
    /\ result[1].is_cached /\ result[1].description = "FROM base"
    /\ ~result[2].is_cached

----------------------------------------------------------------------------
(* C19: a start line '#n [stage k/m] description' creates a record when #n
   has none, and changes no record when #n has one, whichever line created
   it. *)
StartLineFirstSightingOnly ==
    [][\A l \in BkLines : l.kind = "start" /\ l.tok # "bad" /\ BuildkitLine(l) =>
          IF DictHas(step_info, BkId(l.id))
          THEN step_info' = step_info
          ELSE /\ DictHas(step_info', BkId(l.id))
               /\ Len(step_info') = Len(step_info) + 1]_vars

----------------------------------------------------------------------------
(* C20: a '#n DONE <d>s' line gives a non-cached record of #n the duration d
   and the end time start + d; it leaves a cached record as it is, cached
   with duration 0.0 and end time equal to start time; without a record for
   #n it creates none. *)
DoneLine ==
    [][\A l \in BkLines : l.kind = "done" /\ BuildkitLine(l) =>
          LET id == BkId(l.id) IN
          IF ~DictHas(step_info, id) THEN step_info' = step_info
          ELSE IF DictGet(step_info, id).is_cached
          THEN step_info' = step_info /\ CachedZero(DictGet(step_info', id))
          ELSE step_info' = DictSet(step_info, id,
                    [DictGet(step_info, id) EXCEPT
                        !.duration = l.dur,
                        !.end_time = Shift(DictGet(step_info, id).start_time,
                                           Val(l.dur))])]_vars
----------------------------------------------------------------------------
(* Progress, loading, transferring and continuation lines among the lines of
   a BuildKit document *)

\* Inert lines: without a token, behind a timestamp, behind a malformed token
InertLines ==
    {Line(kd, k[1], k[2], FALSE, n, None, FALSE, FALSE, "", "") :
        kd \in BkInertShapes, k \in TsToks, n \in StepNumbers}

\* The lines that open and complete the steps the inert lines refer to
InertOpeners ==
    {Line("start", k[1], k[2], FALSE, n, None, FALSE, TRUE, "", "") :
        k \in OkToks, n \in StepNumbers}
    \cup {Line("done", "none", 1, FALSE, n, Some(1), FALSE, TRUE, "", "") : n \in StepNumbers}

\* The iteration of the loop for an inert line
InertLine(l) ==
    /\ BuildkitStep(l)
    /\ inert_seen' = inert_seen \cup {<<l.kind, DictHas(step_info, BkId(l.id))>>}
    /\ UNCHANGED reuseVars

\* The chain of lines 124-245 comes down to the test of line 223 and passes it
ReachesFallback(l) ==
    LET line == TimestampSub(Strip(l)) IN
    /\ l.kind # "blank"
    /\ ~CachedPattern(line) /\ ~StartPattern(line) /\ ~DonePattern(line)
    /\ ~ProgressPattern(line) /\ ~SimplePattern(line) /\ ~ExtractingPattern(line)
    /\ ~LoadingPattern(line) /\ ~TransferringPattern(line) /\ ~ContinuationPattern(line)
    /\ FallbackShape(line)

InertNext ==
    \/ ParseLogs(TRUE, EOF)
    \/ \E l \in InertOpeners : BuildkitLine(l)
    \/ \E l \in InertLines : InertLine(l)
    \/ BuildkitReturn

SpecInert == Init /\ [][InertNext]_vars

(* C21: a progress, loading, transferring or continuation line leaves the
   record map as it is, whether its id has a record or not: no record is
   created and no field is changed; and the line does not come down to the
   fallback branch. *)
InertLinesInert ==
    [][\A l \in InertLines : InertLine(l) =>
          /\ step_info' = step_info
          /\ step_start_times' = step_start_times
          /\ ~ReachesFallback(l)]_vars

\* A run that has read inert lines of every shape but one, for an id with a
\* record and for an id without
InertWitness ==
    /\ pc = "buildkit"
    /\ Len(step_info) = 1
    /\ \E k1, k2 \in BkInertShapes :
          k1 # k2 /\ <<k1, TRUE>> \in inert_seen /\ <<k2, FALSE>> \in inert_seen
----------------------------------------------------------------------------
(* C22: an extracting line '#n extracting <text> <d>s' for an id that has a
   record adds d to the record's duration, None counting as 0, and leaves
   every other field, start and end time among them, as it is; without a
   duration token, or for an id without a record, the line changes nothing. *)
ExtractingLine ==
    [][\A l \in BkLines : l.kind = "extracting" /\ BuildkitLine(l) =>
          LET id == BkId(l.id) IN
          IF DictHas(step_info, id) /\ l.dur # None
          THEN LET s == DictGet(step_info, id)
                   prior == IF s.duration = None THEN 0 ELSE Val(s.duration)
               IN step_info' = DictSet(step_info, id,
                                  [s EXCEPT !.duration = Some(prior + Val(l.dur))])
          ELSE step_info' = step_info]_vars
----------------------------------------------------------------------------
(* Properties of the relative-time synthesizer *)

\* What step s adds to the cursor
Advance(s) == IF s.is_cached THEN 0 ELSE Val(s.duration)
RECURSIVE SumAdvance(_, _)
SumAdvance(l, S) ==
    IF S = {} THEN 0
    ELSE LET j == CHOOSE j \in S : TRUE IN Advance(l[j]) + SumAdvance(l, S \ {j})
\* The cursor when the walk over the walked list l from base comes to l[i]:
\* the steps of smaller number have moved it
Cursor(l, base, i) ==
    base + SumAdvance(l, {j \in DOMAIN l : StepNum(l[j].step_id) < StepNum(l[i].step_id)})
\* The synthesizer runs on this step: lines 248-249
Synthesizing ==
    pc = "buildkit" /\ pc' = "done" /\ build_start_time = None /\ step_info # <<>>

(* C23: the synthesizer walks the records in ascending numeric id order with
   a cursor that starts at the base time: a cached record gets start = end =
   cursor and leaves the cursor; a record that is not cached and has a
   duration d gets start = cursor, end = cursor + d and moves the cursor to
   its end; a record that is not cached and has no duration gets duration
   1.0, end = cursor + 1 and moves the cursor by 1; the cursor ends at the
   base plus the sum of the durations of the records that are not cached. *)
SynthesizerWalk ==
    [][Synthesizing =>
          LET base == Val(build_start_time') IN
          /\ Len(result') = Len(step_info)
          /\ \A i \in DOMAIN step_info :
                LET old == step_info[i]
                    new == result'[i]
                    cursor == Cursor(result', base, i)
                IN /\ new.step_id = old.step_id /\ new.is_cached = old.is_cached
                   /\ new.start_time = Some(cursor)
                   /\ IF old.is_cached
                      THEN new.end_time = Some(cursor) /\ new.duration = old.duration
                      ELSE IF old.duration # None
                      THEN /\ new.duration = old.duration
                           /\ new.end_time = Some(cursor + Val(old.duration))
                      ELSE /\ new.duration = Some(SyntheticDuration)
                           /\ new.end_time = Some(cursor + 1)
          /\ \A i \in DOMAIN step_info :
                (\A j \in DOMAIN step_info :
                    StepNum(step_info[j].step_id) <= StepNum(step_info[i].step_id)) =>
                result'[i].end_time = Some(base + SumAdvance(result', DOMAIN result'))]_vars

\* The synthesizer has walked a record that is not cached, lasting one
\* second, and then, later in id order and earlier in the list, a cached
\* record: the cursor had moved
SynthesizerWalkWitness ==
    /\ Returned /\ is_buildkit /\ ~sawTimestamp
    /\ Len(result) = 2
    /\ result[1].step_id = BkId(2) /\ result[1].is_cached
    /\ ~result[2].is_cached
    /\ Val(result[1].start_time) = Val(result[2].start_time) + SyntheticDuration
    /\ result[1].end_time = result[1].start_time
----------------------------------------------------------------------------
(* C24: for a BuildKit document without a timestamp on any line no two
   returned steps overlap, and detect_parallelism of the returned list is
   the empty map, without raising, in whatever order the lines of the steps
   come. *)
SynthesizedTimelineSequential ==
    Returned /\ is_buildkit /\ ~sawTimestamp =>
        /\ \A i, j \in DOMAIN result : i # j => ~StepsOverlap(result[i], result[j])
        /\ ~DetectParallelismRaises(result)
        /\ DetectParallelism(result) = <<>>

\* Two steps that both last, returned for a document without timestamps: the
\* second starts when the first ends
SynthesizedSequentialWitness ==
    /\ Returned /\ is_buildkit /\ ~sawTimestamp
    /\ Len(result) = 2
    /\ result[1].step_id = BkId(1) /\ result[2].step_id = BkId(2)
    /\ ~result[1].is_cached /\ ~result[2].is_cached
    /\ Val(result[1].end_time) > Val(result[1].start_time)
    /\ Val(result[2].end_time) > Val(result[2].start_time)
    /\ result[2].start_time = result[1].end_time
----------------------------------------------------------------------------
(* C25: while the BuildKit parser runs every record has a start time, so a
   DONE line never takes the branch of lines 168-174: relative_time_counter
   stays 0, and the handling of a DONE line, in any state the parser is in,
   calls datetime.now() for no build start time (build_start_time changes on
   it only by the line's own timestamp, as on every line). *)
DoneNeverSynthesizes ==
    /\ relative_time_counter = 0
    /\ pc = "buildkit" =>
          /\ \A i \in DOMAIN step_info : step_info[i].start_time # None
          /\ \A l \in BkLines : l.kind = "done" =>
                LET h == BkHandle(l, clock, clock)
                    timestamp == ExtractTimestamp(Strip(l))
                IN /\ h.calls = 0
                   /\ h.rtc = relative_time_counter
                   /\ h.bst = IF timestamp # None /\ build_start_time = None
                              THEN timestamp ELSE build_start_time

\* A DONE line has completed a step in a run that has seen no timestamp: the
\* step's start came from datetime.now()
DoneNeverSynthesizesWitness ==
    /\ pc = "buildkit"
    /\ build_start_time = None
    /\ relative_time_counter = 0
    /\ \E i \in DOMAIN step_info :
          /\ ~step_info[i].is_cached
          /\ step_info[i].duration = Some(1)
          /\ step_info[i].end_time = Some(Val(step_info[i].start_time) + 1)
----------------------------------------------------------------------------
(* C26: for a percentile from 0 up to, not including, 100 and a list with a
   step that is not cached and has a duration, identify_bottlenecks returns
   a list that is not empty, holds every such step of the largest duration,
   holds only steps that are not cached and have a duration, and keeps the
   order of the input list. *)
BottlenecksBelowHundred ==
    a_pc = "bottlenecks" /\ a_pct < 100 /\ Qualifying # <<>> =>
        LET value == a_bottlenecks.value IN
        /\ ~a_bottlenecks.raised
        /\ value # <<>>
        /\ \A i \in DOMAIN Qualifying :
              (\A j \in DOMAIN Qualifying :
                  Val(Qualifying[j].duration) <= Val(Qualifying[i].duration))
              => \E k \in DOMAIN value : value[k] = Qualifying[i]
        /\ \A k \in DOMAIN value :
              /\ ~value[k].is_cached /\ value[k].duration # None
              /\ \E i \in DOMAIN a_steps : a_steps[i] = value[k]
        /\ \A k, m \in DOMAIN value :
              k < m => StepNum(value[k].step_id) < StepNum(value[m].step_id)

\* Percentile 99 over three qualifying steps, two of them tied for the
\* largest duration: both are returned, the third is not
BottlenecksBelowHundredWitness ==
    /\ a_pc = "bottlenecks" /\ a_pct = 99
    /\ Len(Qualifying) = 3
    /\ ~a_bottlenecks.raised
    /\ Len(a_bottlenecks.value) = 2
----------------------------------------------------------------------------
(* The display pipeline: process_logs (src/app.py) with the two methods of
   BuildWaterfallVisualizer (src/visualizer.py) that compute on the steps,
   _calculate_y_positions and add_statistics_panel.  What plotly, pandas and
   streamlit do with the values is left out.  The outcome of a method is
   [raised, value]. *)

\* "if x" on an Optional float: None and 0.0 are false
Truthy(o) == o # None /\ Val(o) # 0

\* The values of the slider of app.py lines 27-34 that are drawn
Thresholds == {50, 75, 95}

\* sorted(steps, key=lambda s: s.start_time), lines 99 and 105
SortedByStart(l) ==
    LET order == SortOrder([i \in DOMAIN l |-> Val(l[i].start_time)])
    IN [r \in DOMAIN l |-> l[order[r]]]

\* The loop of lines 107-121 from position k on.  lanes_in_use holds the
\* (step_id, end_time) of the last step put on each lane; lanes count from 0.
\* The inner loop stops at the first lane whose end_time is None (the
\* comparison of line 111 raises TypeError) or is at most the step's start.
RECURSIVE LaneWalk(_, _, _, _)
LaneWalk(sorted_steps, k, lanes_in_use, positions) ==
    IF k > Len(sorted_steps) THEN [raised |-> FALSE, value |-> positions]
    ELSE LET step == sorted_steps[k]
             stops == {e \in DOMAIN lanes_in_use :
                          \/ lanes_in_use[e].end_time = None
                          \/ Val(step.start_time) >= Val(lanes_in_use[e].end_time)}
             first == CHOOSE e \in stops : \A f \in stops : e <= f
             entry == [step_id |-> step.step_id, end_time |-> step.end_time]
         IN IF stops # {} /\ lanes_in_use[first].end_time = None
            THEN [raised |-> TRUE, value |-> positions]
            ELSE IF stops # {}
            THEN LaneWalk(sorted_steps, k + 1,
                          [lanes_in_use EXCEPT ![first] = entry],
                          DictSet(positions, step.step_id,
                                  [step_id |-> step.step_id, lane |-> first - 1]))
            ELSE LaneWalk(sorted_steps, k + 1,
                          Append(lanes_in_use, entry),
                          DictSet(positions, step.step_id,
                                  [step_id |-> step.step_id, lane |-> Len(lanes_in_use)]))

\* The loop of lines 100-101 from position k on
RECURSIVE StackWalk(_, _, _)
StackWalk(sorted_steps, k, positions) ==
    IF k > Len(sorted_steps) THEN positions
    ELSE StackWalk(sorted_steps, k + 1,
                   DictSet(positions, sorted_steps[k].step_id,
                           [step_id |-> sorted_steps[k].step_id, lane |-> k - 1]))

\* _calculate_y_positions, for steps that all have a start time
CalculateYPositions(l, parallel_groups) ==
    IF parallel_groups = <<>>
    THEN [raised |-> FALSE, value |-> StackWalk(SortedByStart(l), 1, <<>>)]
    ELSE LaneWalk(SortedByStart(l), 1, <<>>, <<>>)

\* add_statistics_panel on a figure that exists: line 260 divides by the
\* number of steps with a true duration (ZeroDivisionError)
AddStatisticsPanelRaises(l) ==
    l # <<>> /\ Filter(l, LAMBDA s : Truthy(s.duration)) = <<>>

\* process_logs (app.py lines 61-100) on the list parse_logs returned
ProcessLogs(show_cached, highlight_bottlenecks, bottleneck_threshold) ==
    /\ pc = "done"
    /\ v_pc = "idle"
    /\ LET shown == IF show_cached THEN result
                    ELSE Filter(result, LAMBDA s : ~s.is_cached)
           parallel_groups == DetectParallelism(shown)
           bottlenecks == IF highlight_bottlenecks
                          THEN IdentifyBottlenecks(shown, bottleneck_threshold)
                          ELSE NoBottlenecks
           lanes == CalculateYPositions(shown, parallel_groups)
       IN IF result = <<>>
          THEN /\ v_pc' = "empty"
               /\ UNCHANGED <<v_error, y_positions, analysisVars>>
          ELSE /\ a_steps' = shown
               /\ a_pct' = bottleneck_threshold
               /\ UNCHANGED a_pc
               /\ IF DetectParallelismRaises(shown)
                  THEN /\ v_error' = "TypeError"
                       /\ UNCHANGED <<a_groups, a_bottlenecks, y_positions>>
                  ELSE /\ a_groups' = parallel_groups
                       /\ IF bottlenecks.raised
                          THEN /\ v_error' = "IndexError"
                               /\ UNCHANGED <<a_bottlenecks, y_positions>>
                          ELSE /\ a_bottlenecks' = bottlenecks
                               \* create_waterfall_chart makes no figure for an empty list
                               /\ y_positions' = IF shown = <<>> THEN y_positions ELSE lanes
                               /\ v_error' = IF shown = <<>> THEN ""
                                             ELSE IF lanes.raised THEN "TypeError"
                                             ELSE IF AddStatisticsPanelRaises(shown)
                                             THEN "ZeroDivisionError"
                                             ELSE ""
               /\ v_pc' = IF v_error' = "" THEN "shown" ELSE "raised"
    /\ UNCHANGED <<parserVars, detectVars, reuseVars>>

DisplayNext ==
    \/ \E fmt \in BOOLEAN, first \in LegacyLines : ParseLogs(fmt, first)
    \/ \E l \in BkLines : BuildkitLine(l)
    \/ BuildkitReturn
    \/ \E nxt \in LegacyLines \cup {EOF} : LegacyLine(nxt)
    \/ LegacyReturn
    \/ \E show_cached, highlight_bottlenecks \in BOOLEAN, bottleneck_threshold \in Thresholds :
          ProcessLogs(show_cached, highlight_bottlenecks, bottleneck_threshold)

SpecDisplay == Init /\ [][DisplayNext]_vars

(* C27: process_logs completes without an exception for every parse result
   that is not empty, results whose steps are all cached or without duration
   among them; add_statistics_panel does not divide by zero. *)
DisplayCompletes ==
    v_pc # "raised" /\ v_error # "ZeroDivisionError"
----------------------------------------------------------------------------
(* _calculate_y_positions on a list of steps and the map detect_parallelism
   returns for it *)

\* Steps as parse_logs returns them for a BuildKit document: with a start
\* time, and an end time that is None (no DONE line seen) or not before it
LaneSteps(n) ==
    {s \in {BuildStep(BkId(n), "RUN make", Some(st), et, None, "stage-0", "2/6", FALSE) :
                st \in StepTimes, et \in Opt(StepTimes)} :
        s.end_time # None => Val(s.end_time) >= Val(s.start_time)}

\* The calls of _prepare_dataframe's caller: detect_parallelism (app.py line
\* 77), then _calculate_y_positions with its map (visualizer.py line 61)
CalculateYPositionsCall ==
    /\ a_pc = "input"
    /\ a_groups' = DetectParallelism(a_steps)
    /\ y_positions' = CalculateYPositions(a_steps, a_groups')
    /\ a_pc' = "lanes"
    /\ UNCHANGED <<a_steps, a_pct, a_bottlenecks, v_pc, v_error>>
    /\ UNCHANGED <<parserVars, detectVars, reuseVars>>

LanesNext ==
    \/ \E s \in LaneSteps(Len(a_steps) + 1) : AddStep(s)
    \/ CalculateYPositionsCall

SpecLanes == AnalysisInit /\ [][LanesNext]_vars

\* The lane recorded for id
LaneOf(id) == DictGet(y_positions.value, id).lane

(* C28: when the map of detect_parallelism is not empty,
   _calculate_y_positions returns without raising, steps without end time
   among the steps or not, and puts any two steps the map lists as
   overlapping on different lanes. *)
LanesDistinct ==
    a_pc = "lanes" /\ a_groups # <<>> =>
        /\ ~y_positions.raised
        /\ \A a \in DOMAIN a_groups : \A b \in Range(a_groups[a].parallel_with) :
              LaneOf(a_groups[a].step_id) # LaneOf(b)
====
